---- MODULE Spec2Model ----
(***************************************************************************)
(* A model of src/BasicComparison.py: the Flask handler index() with its   *)
(* process-wide caches current_data1 / current_data2, and the pure helpers *)
(* check_date, overlap_frames and calc_pearson.                            *)
(*                                                                         *)
(* Python strings are sequences of one-character strings, so that slicing  *)
(* (date[:4]) and code-point comparison (end_date > max) are computed and  *)
(* not assumed.  A pandas frame is a sequence of rows, each row carrying   *)
(* its index label beside its columns, because DataFrame.append keeps the  *)
(* labels of the appended frame and index() later uses a label as a        *)
(* position.  Floats are binary floating-point numbers rounded to nearest  *)
(* even after every operation (see the section on floats).                 *)
(***************************************************************************)
EXTENDS Integers, Sequences, FiniteSets, TLC

VARIABLES
    source1,        \* the observations the remote service holds for FXUSDCAD
    source2,        \* the observations the remote service holds for AVG.INTWO
    current_data1,  \* global current_data1: [bound, rows]
    current_data2,  \* global current_data2: [bound, rows]
    request_data,   \* the body of the request index() handled last
    response,       \* what index() returned last
    escaped,        \* the exception that left index() last, "none" if it returned
    handled,        \* the locals of the last run of index()
    date,           \* check_date: its argument
    flag,           \* check_date: its result
    df1,            \* overlap_frames: its first argument
    df2,            \* overlap_frames: its second argument
    merged,         \* overlap_frames: its result
    df,             \* calc_pearson: its argument
    corr,           \* calc_pearson: its result
    pc              \* position of the pure-function harness: "call" or "done"

vars == <<source1, source2, current_data1, current_data2, request_data, response,
          escaped, handled, date, flag, df1, df2, merged, df, corr, pc>>

Min(a, b) == IF a <= b THEN a ELSE b

Max(a, b) == IF a >= b THEN a ELSE b

(***************************************************************************)
(* Strings.                                                                *)
(***************************************************************************)

\* The code point of a character: what Python compares strings by.
Ord(c) ==
    CASE c = " " -> 32 [] c = "+" -> 43 [] c = "-" -> 45
      [] c = "0" -> 48 [] c = "1" -> 49 [] c = "2" -> 50 [] c = "3" -> 51
      [] c = "4" -> 52 [] c = "5" -> 53 [] c = "6" -> 54 [] c = "7" -> 55
      [] c = "8" -> 56 [] c = "9" -> 57 [] c = "N" -> 78 [] c = "a" -> 97
      [] c = "x" -> 120

\* s < t for Python strings: the first differing code point decides, a proper
\* prefix is smaller.
RECURSIVE StrLessFrom(_, _, _)
StrLessFrom(s, t, i) ==
    IF i > Len(t) THEN FALSE
    ELSE IF i > Len(s) THEN TRUE
    ELSE IF s[i] = t[i] THEN StrLessFrom(s, t, i + 1)
    ELSE Ord(s[i]) < Ord(t[i])

StrLess(s, t) == StrLessFrom(s, t, 1)

StrLeq(s, t) == s = t \/ StrLess(s, t)

\* s[a:b] for 0 <= a <= b: out-of-range bounds are clipped, never an error.
PySlice(s, a, b) ==
    IF a >= Min(b, Len(s)) THEN <<>> ELSE SubSeq(s, a + 1, Min(b, Len(s)))

IsDigit(c) == c \in {"0", "1", "2", "3", "4", "5", "6", "7", "8", "9"}

DigitValue(c) == Ord(c) - 48

RECURSIVE StripLeft(_)
StripLeft(s) == IF s # <<>> /\ Head(s) = " " THEN StripLeft(Tail(s)) ELSE s

RECURSIVE StripRight(_)
StripRight(s) ==
    IF s # <<>> /\ s[Len(s)] = " " THEN StripRight(SubSeq(s, 1, Len(s) - 1)) ELSE s

RECURSIVE DigitsValue(_, _)
DigitsValue(s, acc) ==
    IF s = <<>> THEN acc ELSE DigitsValue(Tail(s), 10 * acc + DigitValue(Head(s)))

\* int(s): surrounding whitespace is stripped, one sign is allowed, then at
\* least one digit and nothing else.  [ok |-> FALSE] stands for ValueError.
PyInt(s) ==
    LET t      == StripRight(StripLeft(s))
        signed == t # <<>> /\ Head(t) \in {"+", "-"}
        digits == IF signed THEN Tail(t) ELSE t
        sign   == IF signed /\ Head(t) = "-" THEN -1 ELSE 1
    IN  IF digits # <<>> /\ \A i \in 1..Len(digits) : IsDigit(digits[i])
        THEN [ok |-> TRUE, val |-> sign * DigitsValue(digits, 0)]
        ELSE [ok |-> FALSE, val |-> 0]

(***************************************************************************)
(* check_date.                                                             *)
(***************************************************************************)

IsLeap(y) == y % 4 = 0 /\ (y % 100 # 0 \/ y % 400 = 0)

DaysInMonth(y, m) ==
    IF m = 2 THEN (IF IsLeap(y) THEN 29 ELSE 28)
    ELSE IF m \in {4, 6, 9, 11} THEN 30 ELSE 31

\* datetime.datetime(y, m, d) does not raise ValueError.
DatetimeOk(y, m, d) ==
    /\ 1 <= y /\ y <= 9999
    /\ 1 <= m /\ m <= 12
    /\ 1 <= d /\ d <= DaysInMonth(y, m)

\* check_date(date): the flag is falsified by any exception of the three int()
\* conversions or of the datetime constructor.
check_date(d) ==
    LET y  == PyInt(PySlice(d, 0, 4))
        m  == PyInt(PySlice(d, 5, 7))
        dd == PyInt(PySlice(d, 8, 10))
    IN  y.ok /\ m.ok /\ dd.ok /\ DatetimeOk(y.val, m.val, dd.val)

(***************************************************************************)
(* Floats.  A float is [m, e], standing for m * 2^e, with m = 0 (and e = 0)*)
(* or 2^(MantissaBits-1) <= |m| < 2^MantissaBits; every operation computes *)
(* the exact result and rounds it to nearest, ties to even, as IEEE 754    *)
(* binary64 does.  binary64 carries 53 significant bits; the model carries *)
(* MantissaBits of them so that the exact intermediate results fit the     *)
(* model checker's integers.  The exponent is unbounded: the series values *)
(* are far from overflow and underflow.                                    *)
(***************************************************************************)

MantissaBits == 11

Pow2(k) == 2 ^ k

Abs(i) == IF i < 0 THEN -i ELSE i

Sgn(i) == IF i < 0 THEN -1 ELSE IF i = 0 THEN 0 ELSE 1

RECURSIVE BitLen(_)
BitLen(n) == IF n = 0 THEN 0 ELSE 1 + BitLen(n \div 2)

FZero == [m |-> 0, e |-> 0]

\* float('nan'): the only value whose mantissa is 0 and whose exponent is not.
NaN == [m |-> 0, e |-> 1]

IsNaN(x) == x = NaN

\* The float nearest to sign * (n + f) * 2^e, where 0 <= f < 1 and sticky says
\* whether f > 0.  A caller that passes sticky passes n with more than
\* MantissaBits + 1 bits.
RoundFloat(sign, n, e, sticky) ==
    IF n = 0 THEN FZero
    ELSE LET bits == BitLen(n) IN
         IF bits <= MantissaBits
         THEN [m |-> sign * n * Pow2(MantissaBits - bits), e |-> e - (MantissaBits - bits)]
         ELSE LET shift == bits - MantissaBits
                  q     == n \div Pow2(shift)
                  r     == n % Pow2(shift)
                  half  == Pow2(shift - 1)
                  up    == r > half \/ (r = half /\ (sticky \/ q % 2 = 1))
                  q1    == IF up THEN q + 1 ELSE q
              IN  IF q1 = Pow2(MantissaBits)
                  THEN [m |-> sign * Pow2(MantissaBits - 1), e |-> e + shift + 1]
                  ELSE [m |-> sign * q1, e |-> e + shift]

\* float(i) for a Python int.
FromInt(i) == RoundFloat(Sgn(i), Abs(i), 0, FALSE)

FNeg(a) == [m |-> -a.m, e |-> a.e]

\* a + b.  An operand more than MantissaBits + 2 binary places below the other
\* is less than a quarter of the spacing of the floats around the larger one.
FAdd(a, b) ==
    IF a.m = 0 THEN b
    ELSE IF b.m = 0 THEN a
    ELSE LET hi == IF a.e >= b.e THEN a ELSE b
             lo == IF a.e >= b.e THEN b ELSE a
             d  == hi.e - lo.e
         IN  IF d > MantissaBits + 2 THEN hi
             ELSE LET n == hi.m * Pow2(d) + lo.m
                  IN  RoundFloat(Sgn(n), Abs(n), lo.e, FALSE)

FSub(a, b) == FAdd(a, FNeg(b))

FMul(a, b) ==
    IF a.m = 0 \/ b.m = 0 THEN FZero
    ELSE RoundFloat(Sgn(a.m) * Sgn(b.m), Abs(a.m) * Abs(b.m), a.e + b.e, FALSE)

\* a / b; numpy gives nan (and a warning) for 0.0 / 0.0, the only division by
\* zero the program can reach.
FDiv(a, b) ==
    IF b.m = 0 THEN NaN
    ELSE IF a.m = 0 THEN FZero
    ELSE LET num == Abs(a.m) * Pow2(MantissaBits + 2)
         IN  RoundFloat(Sgn(a.m) * Sgn(b.m), num \div Abs(b.m),
                        a.e - b.e - (MantissaBits + 2), num % Abs(b.m) # 0)

\* The largest s in lo..hi with s * s <= n.
RECURSIVE ISqrtIn(_, _, _)
ISqrtIn(n, lo, hi) ==
    IF lo = hi THEN lo
    ELSE LET mid == (lo + hi + 1) \div 2
         IN  IF mid * mid <= n THEN ISqrtIn(n, mid, hi) ELSE ISqrtIn(n, lo, mid - 1)

\* a ** 0.5 for a >= 0.
FSqrt(a) ==
    IF a.m = 0 THEN FZero
    ELSE IF a.m < 0 THEN NaN
    ELSE LET k   == IF (a.e - (MantissaBits + 3)) % 2 = 0
                    THEN MantissaBits + 3 ELSE MantissaBits + 4
             rad == a.m * Pow2(k)
             s   == ISqrtIn(rad, 0, Pow2(MantissaBits + 2))
         IN  RoundFloat(1, s, (a.e - k) \div 2, s * s # rad)

\* a < b.
FLess(a, b) ==
    IF Sgn(a.m) # Sgn(b.m) THEN Sgn(a.m) < Sgn(b.m)
    ELSE IF a.m = 0 THEN FALSE
    ELSE IF a.m > 0 THEN a.e < b.e \/ (a.e = b.e /\ a.m < b.m)
    ELSE a.e > b.e \/ (a.e = b.e /\ a.m < b.m)

\* The float nearest to sign * n / d, for integers n >= 0 and d > 0.
RoundRatio(sign, n, d) ==
    IF n = 0 THEN FZero
    ELSE LET k   == Max(0, MantissaBits + 2 + BitLen(d) - BitLen(n))
             num == n * Pow2(k)
         IN  RoundFloat(sign, num \div d, -k, num % d # 0)

\* round(x, 4): the float nearest to x rounded to four decimals, ties to even.
\* (numpy computes rint(x * 10**4) / 10**4 in binary64, where the error of the
\* product is far below the half unit that decides rint; the model decides
\* from the exact product, so that the narrower mantissa adds no error here.)
Round4(x) ==
    IF IsNaN(x) THEN NaN
    ELSE IF x.e >= 0 THEN x
    ELSE IF -x.e > 26 THEN FZero
    ELSE LET n    == Abs(x.m) * 10000
             q    == n \div Pow2(-x.e)
             r    == n % Pow2(-x.e)
             half == Pow2(-x.e - 1)
             up   == r > half \/ (r = half /\ q % 2 = 1)
         IN  RoundRatio(Sgn(x.m), IF up THEN q + 1 ELSE q, 10000)

\* Series.sum(): the elements added from left to right, starting from 0.0.
RECURSIVE FSum(_)
FSum(s) == IF s = <<>> THEN FZero ELSE FAdd(FSum(SubSeq(s, 1, Len(s) - 1)), s[Len(s)])

\* Series.max() and Series.min() of floats; nan for an empty series.
RECURSIVE FMax(_)
FMax(s) ==
    IF s = <<>> THEN NaN
    ELSE IF Len(s) = 1 THEN s[1]
    ELSE LET rest == FMax(Tail(s)) IN IF FLess(s[1], rest) THEN rest ELSE s[1]

RECURSIVE FMin(_)
FMin(s) ==
    IF s = <<>> THEN NaN
    ELSE IF Len(s) = 1 THEN s[1]
    ELSE LET rest == FMin(Tail(s)) IN IF FLess(rest, s[1]) THEN rest ELSE s[1]

\* Series.mean(): the sum over the count; nan for an empty series.
FMean(s) == IF s = <<>> THEN NaN ELSE FDiv(FSum(s), FromInt(Len(s)))

(***************************************************************************)
(* calc_pearson.  A pandas Series is a sequence of [idx, val]: arithmetic  *)
(* between two Series pairs the elements by index label, not by position.  *)
(***************************************************************************)

\* df[df[col].notnull()][col]: the non-null values of a column with the labels
\* of their rows (the frame's index is 0, 1, 2, ...).
NotNullColumn(frame, col) ==
    SelectSeq([i \in 1..Len(frame) |-> [idx |-> i - 1, val |-> frame[i][col]]],
              LAMBDA r : ~IsNaN(r.val))

SeriesValues(s) == [i \in 1..Len(s) |-> s[i].val]

\* series - scalar
SeriesMinus(s, x) == [i \in 1..Len(s) |-> [idx |-> s[i].idx, val |-> FSub(s[i].val, x)]]

\* (a * b).sum(): the products at the labels both series carry, in label
\* order; a label only one of them carries gives nan, which sum() skips.
SumOfProducts(a, b) ==
    LET both  == SelectSeq(a, LAMBDA r : \E j \in 1..Len(b) : b[j].idx = r.idx)
        other(r) == b[CHOOSE j \in 1..Len(b) : b[j].idx = r.idx].val
    IN  FSum([i \in 1..Len(both) |-> FMul(both[i].val, other(both[i]))])

Sentinel == FromInt(999)

calc_pearson(frame) ==
    LET series1 == NotNullColumn(frame, "overlap_x")
        series2 == NotNullColumn(frame, "overlap_y")
    IN  IF Len(series1) # Len(series2) \/ Len(series1) <= 1 \/ Len(series2) <= 1
        THEN Sentinel
        ELSE LET length  == FromInt(Len(series1))
                 mean1   == FDiv(FSum(SeriesValues(series1)), length)
                 mean2   == FDiv(FSum(SeriesValues(series2)), length)
                 diff1   == SeriesMinus(series1, mean1)
                 diff2   == SeriesMinus(series2, mean2)
                 var1    == FDiv(SumOfProducts(diff1, diff1), length)
                 var2    == FDiv(SumOfProducts(diff2, diff2), length)
                 cov     == FDiv(SumOfProducts(diff1, diff2), length)
                 st_dev1 == FSqrt(var1)
                 st_dev2 == FSqrt(var2)
             IN  IF st_dev1 = FZero \/ st_dev2 = FZero
                 THEN Sentinel
                 ELSE FDiv(cov, FMul(st_dev1, st_dev2))

(***************************************************************************)
(* overlap_frames.  A frame of get_BOC_data is a sequence of rows          *)
(* [idx, dates, values]; the merged frame is a sequence of rows            *)
(* [dates, values_x, values_y, overlap_x, overlap_y] and its index is      *)
(* 0, 1, 2, ...                                                            *)
(***************************************************************************)

FrameDates(frame) == {frame[i].dates : i \in 1..Len(frame)}

\* The smallest string of a non-empty set.
RECURSIVE MinStr(_)
MinStr(S) ==
    LET x == CHOOSE y \in S : TRUE
    IN  IF S = {x} THEN x
        ELSE LET rest == MinStr(S \ {x}) IN IF StrLess(x, rest) THEN x ELSE rest

\* The largest string of a non-empty set.
RECURSIVE MaxStr(_)
MaxStr(S) ==
    LET x == CHOOSE y \in S : TRUE
    IN  IF S = {x} THEN x
        ELSE LET rest == MaxStr(S \ {x}) IN IF StrLess(rest, x) THEN x ELSE rest

\* The strings of a set in ascending order.
RECURSIVE SortStrs(_)
SortStrs(S) == IF S = {} THEN <<>> ELSE <<MinStr(S)>> \o SortStrs(S \ {MinStr(S)})

RECURSIVE Flatten(_)
Flatten(ss) == IF ss = <<>> THEN <<>> ELSE Head(ss) \o Flatten(Tail(ss))

RowsDated(frame, d) == SelectSeq(frame, LAMBDA r : r.dates = d)

\* The rows pd.merge(how='outer') gives for one key: every pairing of the left
\* and the right rows that carry it, or the rows of the one side with the
\* other side's value null.
JoinKey(left, right, d) ==
    LET l == RowsDated(left, d)
        r == RowsDated(right, d)
    IN  IF r = <<>>
        THEN [i \in 1..Len(l) |-> [dates |-> d, values_x |-> l[i].values, values_y |-> NaN]]
        ELSE IF l = <<>>
        THEN [j \in 1..Len(r) |-> [dates |-> d, values_x |-> NaN, values_y |-> r[j].values]]
        ELSE Flatten([i \in 1..Len(l) |->
                 [j \in 1..Len(r) |->
                     [dates |-> d, values_x |-> l[i].values, values_y |-> r[j].values]]])

\* pd.merge with how='left': the keys of the left frame only.
MergeLeft(left, right) ==
    LET keys == SortStrs(FrameDates(left))
    IN  Flatten([k \in 1..Len(keys) |-> JoinKey(left, right, keys[k])])

\* pd.merge(left, right, how='outer', on='dates'): the union of the keys, the
\* keys in lexicographic order.
MergeOuter(left, right) ==
    LET keys == SortStrs(FrameDates(left) \cup FrameDates(right))
    IN  Flatten([k \in 1..Len(keys) |-> JoinKey(left, right, keys[k])])

\* merged[merged['values_x'].notnull() & merged['values_y'].notnull()][col],
\* assigned back as a column: null in the rows the selection leaves out.
OverlapColumn(row, col) ==
    IF ~IsNaN(row.values_x) /\ ~IsNaN(row.values_y) THEN row[col] ELSE NaN

overlap_frames(left, right) ==
    LET m == MergeOuter(left, right)
    IN  [i \in 1..Len(m) |->
            [dates     |-> m[i].dates,
             values_x  |-> m[i].values_x,
             values_y  |-> m[i].values_y,
             overlap_x |-> OverlapColumn(m[i], "values_x"),
             overlap_y |-> OverlapColumn(m[i], "values_y")]]

(***************************************************************************)
(* The remote service and get_BOC_data.                                    *)
(***************************************************************************)

DigitChar(n) ==
    CASE n = 0 -> "0" [] n = 1 -> "1" [] n = 2 -> "2" [] n = 3 -> "3" [] n = 4 -> "4"
      [] n = 5 -> "5" [] n = 6 -> "6" [] n = 7 -> "7" [] n = 8 -> "8" [] n = 9 -> "9"

\* The text YYYY-MM-DD of a date.
ISO(y, m, d) ==
    << DigitChar(y \div 1000), DigitChar((y \div 100) % 10), DigitChar((y \div 10) % 10),
       DigitChar(y % 10), "-", DigitChar(m \div 10), DigitChar(m % 10), "-",
       DigitChar(d \div 10), DigitChar(d % 10) >>

\* The frame pd.json_normalize builds from observations: index 0, 1, 2, ...
Frame(obs) ==
    [i \in 1..Len(obs) |-> [idx |-> i - 1, dates |-> obs[i].dates, values |-> obs[i].values]]

\* get_BOC_data(series, start_date, end_date) against the observations the
\* service holds for the series.  It raises (ok = FALSE) when the request
\* fails (up = FALSE) and when the service returns no observation: the frame
\* then has no column and the assignment of two column names raises.
get_BOC_data(source, up, start_date, end_date) ==
    LET obs == SelectSeq(source,
                   LAMBDA o : StrLeq(start_date, o.dates) /\ StrLeq(o.dates, end_date))
    IN  [ok |-> up /\ obs # <<>>, frame |-> Frame(obs)]

(***************************************************************************)
(* index().                                                                *)
(***************************************************************************)

MsgValidation == "Please double check the dates to ensure they are valid."

MsgFailure == "Something went wrong in retrieving data. Double check the date format."

MsgSuccess == "Note that correlation is calculated for the overlapping time period only."

ZeroDate == <<"0", "0", "0", "0", "-", "0", "0", "-", "0", "0">>

\* What jsonify writes for a float nan where a date is expected.
NaNDate == <<"N", "a", "N">>

\* The placeholder dictionary of line 133.
Placeholder ==
    [message   |-> MsgValidation,
     FXUSDCAD  |-> [low |-> FZero, high |-> FZero, mean |-> FZero,
                    mindate |-> ZeroDate, maxdate |-> ZeroDate],
     AVG_INTWO |-> [low |-> FZero, high |-> FZero, mean |-> FZero,
                    mindate |-> ZeroDate, maxdate |-> ZeroDate],
     rho       |-> Sentinel]

\* No dictionary: index() has not run, or an exception left it.
NoResponse == [message |-> "(no response)"]

\* The literal of lines 187 and 194.
Cutoff == ISO(2020, 10, 27)

Column(frame, col) == [i \in 1..Len(frame) |-> frame[i][col]]

\* Series.min() / Series.max() of a column of strings; nan for an empty one.
MinDate(frame) == IF frame = <<>> THEN NaNDate ELSE MinStr(FrameDates(frame))

MaxDate(frame) == IF frame = <<>> THEN NaNDate ELSE MaxStr(FrameDates(frame))

\* current_data.append(df[1:]): the rows of df but the first, with the index
\* labels they have in df.
AppendButFirst(rows, frame) == rows \o Tail(frame)

\* frame.index[mask][0]: the label of the first row the mask selects.
\* [ok |-> FALSE] stands for IndexError: a mask of another length than the
\* index, or a mask that selects nothing.
FirstLabel(frame, mask) ==
    IF Len(mask) # Len(frame) \/ \A i \in 1..Len(mask) : ~mask[i]
    THEN [ok |-> FALSE, idx |-> -1]
    ELSE [ok |-> TRUE,
          idx |-> frame[CHOOSE i \in 1..Len(mask) :
                            mask[i] /\ \A j \in 1..(i - 1) : ~mask[j]].idx]

DatesEqual(frame, d) == [i \in 1..Len(frame) |-> frame[i].dates = d]

\* Lines 175-178 and 180-183: the lower index of one store.
MinDateIndex(rows, start_date) ==
    IF StrLeq(start_date, MinDate(rows))
    THEN [ok |-> TRUE, idx |-> 0]
    ELSE FirstLabel(rows, DatesEqual(rows, start_date))

\* Lines 185-190: the upper index of the first store.  The first test reads
\* the second store, and the lookup takes the labels of the second store at
\* the rows of the first.
MaxDateIndex1(rows1, rows2, end_date) ==
    IF StrLeq(end_date, MaxDate(rows2)) THEN [ok |-> TRUE, idx |-> Len(rows1)]
    ELSE IF StrLeq(Cutoff, end_date) THEN [ok |-> TRUE, idx |-> Len(rows1)]
    ELSE FirstLabel(rows2, DatesEqual(rows1, end_date))

\* Lines 192-197: the upper index of the second store.
MaxDateIndex2(rows2, end_date) ==
    IF StrLeq(end_date, MaxDate(rows2)) THEN [ok |-> TRUE, idx |-> Len(rows2)]
    ELSE IF StrLeq(Cutoff, end_date) THEN [ok |-> TRUE, idx |-> Len(rows2)]
    ELSE FirstLabel(rows2, DatesEqual(rows2, end_date))

\* Another reading of mindate: the date of the first row of the slice that
\* holds the smallest value.
SliceDateOfMinValue(slice) ==
    IF slice = <<>> THEN NaNDate
    ELSE slice[CHOOSE i \in 1..Len(slice) :
                   /\ slice[i].values = FMin(Column(slice, "values"))
                   /\ \A j \in 1..(i - 1) : slice[j].values # slice[i].values].dates

\* Lines 211-212: current_data['dates'][lo:hi].min()
SliceMinDate(slice) == MinDate(slice)

\* Lines 214-215: current_data['dates'][lo:hi].max()
SliceMaxDate(slice) == MaxDate(slice)

\* Lines 201-215 for one series: the entry of response for rows[lo:hi].
SeriesStats(rows, lo, hi) ==
    LET slice == PySlice(rows, lo, hi)
    IN  [low     |-> FMin(Column(slice, "values")),
         high    |-> FMax(Column(slice, "values")),
         mean    |-> Round4(FMean(Column(slice, "values"))),
         mindate |-> SliceMinDate(slice),
         maxdate |-> SliceMaxDate(slice)]

\* The locals of a run of index() that the properties read; -1 and <<>> stand
\* for a local the run did not assign.
NoLocals ==
    [stage            |-> "none",
     fetches          |-> 0,
     before1          |-> <<>>,
     before2          |-> <<>>,
     data_start_date  |-> <<>>,
     df_FX_USDCAD     |-> <<>>,
     df_AVG_INTWO     |-> <<>>,
     min_date_index_1 |-> -1,
     min_date_index_2 |-> -1,
     max_date_index_1 |-> -1,
     max_date_index_2 |-> -1]

\* A run of index() on one request body.  up1 and up2 say whether the two
\* requests to the remote service succeed, should the run make them.  The
\* result is what the run leaves behind: the exception that left it (escaped),
\* the dictionary it returned, the two globals and its locals.
IndexRun(body, up1, up2) ==
    LET before ==
            [NoLocals EXCEPT !.before1 = current_data1.rows,
                             !.before2 = current_data2.rows]
        Leave(exc, resp, rows1, rows2, loc) ==
            [escaped |-> exc, response |-> resp,
             current_data1 |-> [current_data1 EXCEPT !.rows = rows1],
             current_data2 |-> [current_data2 EXCEPT !.rows = rows2],
             handled |-> loc]
        \* lines 140-145: a body json.loads cannot read gives two empty dates
        request_dict ==
            IF body.kind = "unreadable"
            THEN [startDate |-> <<>>, endDate |-> <<>>]
            ELSE [startDate |-> body.startDate, endDate |-> body.endDate]
        start_date == request_dict.startDate
        end_date   == request_dict.endDate
        cached_max == MaxDate(current_data1.rows)
        \* lines 152-154: data_start_date is bound only on this branch
        start_bound == StrLess(cached_max, end_date)
        data_start_date == cached_max
        \* the except clause of lines 224-227
        Caught(rows1, rows2, loc) ==
            Leave("none", [Placeholder EXCEPT !.message = MsgFailure], rows1, rows2, loc)
    IN
    \* lines 148-149: KeyError, outside every try block
    IF body.kind = "no_dates"
    THEN Leave("KeyError", NoResponse, current_data1.rows, current_data2.rows,
               [before EXCEPT !.stage = "escaped"])
    \* line 152: NameError when the start-up fetch left current_data1 unbound
    ELSE IF ~current_data1.bound
    THEN Leave("NameError", NoResponse, current_data1.rows, current_data2.rows,
               [before EXCEPT !.stage = "escaped"])
    \* line 157
    ELSE IF ~(check_date(start_date) /\ check_date(end_date) /\ StrLeq(start_date, end_date))
    THEN Leave("none", Placeholder, current_data1.rows, current_data2.rows,
               [before EXCEPT !.stage = "invalid"])
    \* line 161: UnboundLocalError before the call is made
    ELSE IF ~start_bound
    THEN Caught(current_data1.rows, current_data2.rows,
                [before EXCEPT !.stage = "start_unbound"])
    ELSE
    LET fx == get_BOC_data(source1, up1, data_start_date, end_date)
        loc1 == [before EXCEPT !.data_start_date = data_start_date, !.fetches = 1]
    IN
    IF ~fx.ok
    THEN Caught(current_data1.rows, current_data2.rows, [loc1 EXCEPT !.stage = "fetch_failed"])
    ELSE
    LET av == get_BOC_data(source2, up2, data_start_date, end_date)
        loc2 == [loc1 EXCEPT !.fetches = 2, !.df_FX_USDCAD = fx.frame]
    IN
    IF ~av.ok
    THEN Caught(current_data1.rows, current_data2.rows, [loc2 EXCEPT !.stage = "fetch_failed"])
    ELSE
    LET rows1 == AppendButFirst(current_data1.rows, fx.frame)
        loc3  == [loc2 EXCEPT !.df_AVG_INTWO = av.frame]
    IN
    \* line 166: NameError when current_data2 is unbound; line 165 has run
    IF ~current_data2.bound
    THEN Caught(rows1, current_data2.rows, [loc3 EXCEPT !.stage = "cache2_unbound"])
    ELSE
    LET rows2 == AppendButFirst(current_data2.rows, av.frame)
        lo1   == MinDateIndex(rows1, start_date)
        lo2   == MinDateIndex(rows2, start_date)
        hi1   == MaxDateIndex1(rows1, rows2, end_date)
        hi2   == MaxDateIndex2(rows2, end_date)
        loc4  == [loc3 EXCEPT !.min_date_index_1 = lo1.idx]
        loc5  == [loc4 EXCEPT !.min_date_index_2 = lo2.idx]
        loc6  == [loc5 EXCEPT !.max_date_index_1 = hi1.idx]
        loc7  == [loc6 EXCEPT !.max_date_index_2 = hi2.idx]
    IN
    IF ~lo1.ok THEN Caught(rows1, rows2, [loc3 EXCEPT !.stage = "lookup_failed"])
    ELSE IF ~lo2.ok THEN Caught(rows1, rows2, [loc4 EXCEPT !.stage = "lookup_failed"])
    ELSE IF ~hi1.ok THEN Caught(rows1, rows2, [loc5 EXCEPT !.stage = "lookup_failed"])
    ELSE IF ~hi2.ok THEN Caught(rows1, rows2, [loc6 EXCEPT !.stage = "lookup_failed"])
    ELSE
    LET df_FX_CORRA == overlap_frames(PySlice(rows1, lo1.idx, hi1.idx),
                                      PySlice(rows2, lo2.idx, hi2.idx))
    IN  Leave("none",
              [message   |-> MsgSuccess,
               FXUSDCAD  |-> SeriesStats(rows1, lo1.idx, hi1.idx),
               AVG_INTWO |-> SeriesStats(rows2, lo2.idx, hi2.idx),
               rho       |-> Round4(calc_pearson(df_FX_CORRA))],
              rows1, rows2, [loc7 EXCEPT !.stage = "done"])

(***************************************************************************)
(* The server: start-up (lines 241-249) and the requests it then handles.  *)
(***************************************************************************)

\* The days the model's remote service may hold an observation for.
Calendar ==
    <<ISO(2020, 6, 29), ISO(2020, 6, 30), ISO(2020, 7, 1), ISO(2020, 7, 2), ISO(2020, 10, 27)>>

\* The values of the two series on the days of the calendar.
Values1 == [i \in 1..Len(Calendar) |-> FromInt(i)]

Values2 == [i \in 1..Len(Calendar) |-> FromInt(Len(Calendar) + 1 - i)]

\* The day a series has no observation for (0: none): the two series are
\* published on different days.
ClosedDays == {0, 2, 3}

Observations(values, closed) ==
    LET all == [i \in 1..Len(Calendar) |-> [day |-> i, dates |-> Calendar[i], values |-> values[i]]]
        open == SelectSeq(all, LAMBDA o : o.day # closed)
    IN  [i \in 1..Len(open) |-> [dates |-> open[i].dates, values |-> open[i].values]]

\* The most rows a store may hold in the model.
MaxRows == 6

Unbound == [bound |-> FALSE, rows |-> <<>>]

Bound(frame) == [bound |-> TRUE, rows |-> frame]

NoRequest == [kind |-> "none", startDate |-> <<>>, endDate |-> <<>>]

\* The dates a request may carry: the days of the calendar, and a day no
\* calendar has.
RequestDates ==
    {ISO(2020, 6, 29), ISO(2020, 6, 30), ISO(2020, 6, 31), ISO(2020, 7, 1),
     ISO(2020, 7, 2), ISO(2020, 10, 27)}

\* The request bodies: one json.loads cannot read (an empty body is one), one
\* it reads that has no startDate or no endDate, and the ones with two dates.
Bodies ==
    {[kind |-> "unreadable", startDate |-> <<>>, endDate |-> <<>>],
     [kind |-> "no_dates", startDate |-> <<>>, endDate |-> <<>>]}
    \cup {[kind |-> "dates", startDate |-> s, endDate |-> e] : s, e \in RequestDates}

\* The variables of the harness of the pure functions, at rest.
PureIdle ==
    /\ date = <<>> /\ flag = FALSE
    /\ df1 = <<>> /\ df2 = <<>> /\ merged = <<>>
    /\ df = <<>> /\ corr = FZero
    /\ pc = "idle"

\* The variables of the server, at rest, in the harness of the pure functions.
ServerIdle ==
    /\ source1 = <<>> /\ source2 = <<>>
    /\ current_data1 = Unbound /\ current_data2 = Unbound
    /\ request_data = NoRequest
    /\ response = NoResponse
    /\ escaped = "none"
    /\ handled = NoLocals

\* Lines 241-249: the two start-up fetches; an exception of either is
\* swallowed and leaves the globals it had not assigned unbound.
Init ==
    /\ \E c1, c2 \in ClosedDays :
          /\ source1 = Observations(Values1, c1)
          /\ source2 = Observations(Values2, c2)
    /\ \E up1, up2 \in BOOLEAN :
          LET fx == get_BOC_data(source1, up1, ISO(2017, 1, 3), ISO(2020, 6, 30))
              av == get_BOC_data(source2, up2, ISO(2017, 1, 3), ISO(2020, 6, 30))
          IN  /\ current_data1 = IF fx.ok THEN Bound(fx.frame) ELSE Unbound
              /\ current_data2 = IF fx.ok /\ av.ok THEN Bound(av.frame) ELSE Unbound
    /\ request_data = NoRequest
    /\ response = NoResponse
    /\ escaped = "none"
    /\ handled = NoLocals
    /\ PureIdle

\* index() handles one request, from its first line to its return.
index(body, up1, up2) ==
    \E run \in {IndexRun(body, up1, up2)} :
        /\ Len(run.current_data1.rows) <= MaxRows
        /\ Len(run.current_data2.rows) <= MaxRows
        /\ request_data' = body
        /\ response' = run.response
        /\ escaped' = run.escaped
        /\ current_data1' = run.current_data1
        /\ current_data2' = run.current_data2
        /\ handled' = run.handled
        /\ UNCHANGED <<source1, source2, date, flag, df1, df2, merged, df, corr, pc>>

\* The remote service answers both requests of a run, or fails one of them.
Services == {<<TRUE, TRUE>>, <<FALSE, TRUE>>, <<TRUE, FALSE>>}

Next == \E body \in Bodies, up \in Services : index(body, up[1], up[2])

Spec == Init /\ [][Next]_vars

(***************************************************************************)
(* The pure functions, each applied once to an input drawn at the start.   *)
(***************************************************************************)

\* check_date: a year field, a separator, a month field, a separator, a day
\* field and what may follow; fields of the right and of the wrong length.
YearFields ==
    {<<"2", "0", "2", "0">>, <<"2", "0", "2", "1">>, <<"1", "9", "0", "0">>,
     <<"2", "0", "0", "0">>, <<"0", "0", "0", "0">>, <<"2", "0", "x", "0">>,
     <<" ", "2", "0", "2">>, <<"-", "0", "0", "1">>, <<"2", "0", "2">>}

MonthFields ==
    {<<"0", "2">>, <<"0", "4">>, <<"1", "2">>, <<"1", "3">>, <<"0", "0">>,
     <<"0", "x">>, <<"+", "2">>, <<"2">>}

DayFields ==
    {<<"0", "1">>, <<"1", "0">>, <<"2", "8">>, <<"2", "9">>, <<"3", "0">>, <<"3", "1">>,
     <<"0", "0">>, <<"3", "x">>, <<"2">>, <<>>}

Separators == {<<"-">>, <<"x">>}

Suffixes == {<<>>, <<"x">>}

DateInputs ==
    {<<>>, <<"2", "0", "2", "0">>, <<"2", "0", "2", "0", "-", "0", "2">>}
    \cup {y \o a \o m \o b \o d \o z :
            y \in YearFields, a \in Separators, m \in MonthFields,
            b \in {<<"-">>}, d \in DayFields, z \in Suffixes}

InitCheckDate ==
    /\ date \in DateInputs
    /\ flag = FALSE
    /\ pc = "call"
    /\ df1 = <<>> /\ df2 = <<>> /\ merged = <<>> /\ df = <<>> /\ corr = FZero
    /\ ServerIdle

CallCheckDate ==
    /\ pc = "call"
    /\ flag' = check_date(date)
    /\ pc' = "done"
    /\ UNCHANGED <<source1, source2, current_data1, current_data2, request_data,
                   response, escaped, handled, date, df1, df2, merged, df, corr>>

SpecCheckDate == InitCheckDate /\ [][CallCheckDate]_vars

\* overlap_frames: two frames with unique dates, in any order of rows.
MaxFrameLen == 2

OverlapDates == {ISO(2020, 1, 1), ISO(2020, 1, 2), ISO(2020, 1, 3)}

\* The sequences of at most n distinct dates of a set, with a value on each.
RECURSIVE FramesOver(_, _, _)
FramesOver(dates, values, n) ==
    IF n = 0 THEN {<<>>}
    ELSE LET shorter == FramesOver(dates, values, n - 1)
         IN  shorter \cup
             {Append(f, [idx |-> Len(f), dates |-> d, values |-> v]) :
                 f \in {g \in shorter : Len(g) = n - 1}, d \in dates, v \in values}

UniqueDates(frame) ==
    \A i, j \in 1..Len(frame) : frame[i].dates = frame[j].dates => i = j

InitOverlap ==
    /\ df1 \in {f \in FramesOver(OverlapDates, {FromInt(1), FromInt(2)}, MaxFrameLen) :
                  UniqueDates(f)}
    /\ df2 \in {f \in FramesOver(OverlapDates, {FromInt(5), FromInt(6)}, MaxFrameLen) :
                  UniqueDates(f)}
    /\ merged = <<>>
    /\ pc = "call"
    /\ date = <<>> /\ flag = FALSE /\ df = <<>> /\ corr = FZero
    /\ ServerIdle

CallOverlapFrames ==
    /\ pc = "call"
    /\ merged' = overlap_frames(df1, df2)
    /\ pc' = "done"
    /\ UNCHANGED <<source1, source2, current_data1, current_data2, request_data,
                   response, escaped, handled, date, flag, df1, df2, df, corr>>

SpecOverlap == InitOverlap /\ [][CallOverlapFrames]_vars

\* calc_pearson: frames of at most MaxPairs rows whose overlap values are
\* null or one of a few floats: 0.1 and 0.2, which binary floats cannot
\* hold exactly, and 1.0, which they can.
MaxPairs == 3

PearsonValues ==
    {NaN, RoundRatio(1, 1, 10), RoundRatio(1, 2, 10), FromInt(1)}

RECURSIVE OverlapRows(_)
OverlapRows(n) ==
    IF n = 0 THEN {<<>>}
    ELSE LET shorter == OverlapRows(n - 1)
         IN  shorter \cup
             {Append(f, [overlap_x |-> x, overlap_y |-> y]) :
                 f \in {g \in shorter : Len(g) = n - 1},
                 x \in PearsonValues, y \in PearsonValues}

InitPearson ==
    /\ df \in OverlapRows(MaxPairs)
    /\ corr = FZero
    /\ pc = "call"
    /\ date = <<>> /\ flag = FALSE /\ df1 = <<>> /\ df2 = <<>> /\ merged = <<>>
    /\ ServerIdle

CallCalcPearson ==
    /\ pc = "call"
    /\ corr' = calc_pearson(df)
    /\ pc' = "done"
    /\ UNCHANGED <<source1, source2, current_data1, current_data2, request_data,
                   response, escaped, handled, date, flag, df1, df2, merged, df>>

SpecPearson == InitPearson /\ [][CallCalcPearson]_vars

(***************************************************************************)
(* The properties.                                                         *)
(***************************************************************************)

\* The observations of a frame, without the index labels.
Obs(frame) == [i \in 1..Len(frame) |-> [dates |-> frame[i].dates, values |-> frame[i].values]]

StrictlyAscending(rows) ==
    \A i \in 1..(Len(rows) - 1) : StrLess(rows[i].dates, rows[i + 1].dates)

\* The last request carried two dates that pass line 157.
RequestValid ==
    /\ request_data.kind = "dates"
    /\ check_date(request_data.startDate)
    /\ check_date(request_data.endDate)
    /\ StrLeq(request_data.startDate, request_data.endDate)

\* The last request reached line 157 and did not pass it.
RequestInvalid == request_data.kind \in {"dates", "unreadable"} /\ ~RequestValid

\* The slices the last run of index() took its statistics from.
Slice1 ==
    PySlice(current_data1.rows, handled.min_date_index_1, handled.max_date_index_1)

Slice2 ==
    PySlice(current_data2.rows, handled.min_date_index_2, handled.max_date_index_2)

\* The rows of a store dated within the requested range.
RequestedRange(rows) ==
    SelectSeq(rows, LAMBDA r : /\ StrLeq(request_data.startDate, r.dates)
                               /\ StrLeq(r.dates, request_data.endDate))

\* The date of the first row of a slice that holds value v.
DateOfFirstValue(slice, v) ==
    IF slice = <<>> THEN NaNDate
    ELSE slice[CHOOSE i \in 1..Len(slice) :
                   slice[i].values = v /\ \A j \in 1..(i - 1) : slice[j].values # v].dates

\* The 0-based position of the first row of a store dated d.
FirstPosition(rows, d) ==
    (CHOOSE i \in 1..Len(rows) :
         rows[i].dates = d /\ \A j \in 1..(i - 1) : rows[j].dates # d) - 1

\* C1: a valid request whose endDate is not after the largest date the first
\* store held is answered from the stores: no fetch, and the success message
\* with the statistics, not the failure message.  (Stated with both stores
\* bound, where nothing else can fail the request.)
C1_CachedRangeIsAnswered ==
    ( /\ RequestValid
      /\ current_data1.bound /\ current_data2.bound
      /\ StrLeq(request_data.endDate, MaxDate(handled.before1)) )
    => ( /\ handled.fetches = 0
         /\ escaped = "none"
         /\ response.message = MsgSuccess )

\* C2: after any sequence of requests each store holds no date twice and is
\* sorted ascending by date (the stores start so, and the remote service
\* returns ascending observations without duplicates).
C2_StoresStaySortedAndUnique ==
    /\ StrictlyAscending(current_data1.rows)
    /\ StrictlyAscending(current_data2.rows)

\* C3: when index() extends the stores, each store gains exactly the fetched
\* observations of its series dated strictly after the largest date the
\* store held before.
C3_ExtendAddsExactlyTheLaterObservations ==
    handled.stage \in {"lookup_failed", "done"}
    => LET gained(rows, before) == Obs(SubSeq(rows, Len(before) + 1, Len(rows)))
           later(frame, before) ==
               Obs(SelectSeq(frame, LAMBDA r : StrLess(MaxDate(before), r.dates)))
       IN  /\ SubSeq(current_data1.rows, 1, Len(handled.before1)) = handled.before1
           /\ SubSeq(current_data2.rows, 1, Len(handled.before2)) = handled.before2
           /\ gained(current_data1.rows, handled.before1)
                  = later(handled.df_FX_USDCAD, handled.before1)
           /\ gained(current_data2.rows, handled.before2)
                  = later(handled.df_AVG_INTWO, handled.before2)

IsEarliestDateOf(d, slice) ==
    IF slice = <<>> THEN d = NaNDate
    ELSE d \in FrameDates(slice) /\ \A i \in 1..Len(slice) : StrLeq(d, slice[i].dates)

IsLatestDateOf(d, slice) ==
    IF slice = <<>> THEN d = NaNDate
    ELSE d \in FrameDates(slice) /\ \A i \in 1..Len(slice) : StrLeq(slice[i].dates, d)

\* C4, as amended: for each series the mindate and the maxdate of a
\* successful request are the earliest and the latest date of the slice the
\* statistics are taken from (nan for an empty slice), wherever the smallest
\* and the largest value occur.
C4_DatesAreEarliestAndLatest ==
    handled.stage = "done"
    => /\ IsEarliestDateOf(response.FXUSDCAD.mindate, Slice1)
       /\ IsLatestDateOf(response.FXUSDCAD.maxdate, Slice1)
       /\ IsEarliestDateOf(response.AVG_INTWO.mindate, Slice2)
       /\ IsLatestDateOf(response.AVG_INTWO.maxdate, Slice2)

\* C4's case: a successful request over a slice of the second series whose
\* smallest value is not on its earliest date.
C4_Witness ==
    /\ handled.stage = "done"
    /\ Len(Slice2) >= 2
    /\ DateOfFirstValue(Slice2, response.AVG_INTWO.low) # response.AVG_INTWO.mindate

\* C4, as claimed: for each series the mindate and the maxdate of a successful
\* request are the dates of the first observation of the requested range that
\* holds the smallest value, and of the first that holds the largest.
\* (Stated for the requests whose slices are the requested ranges.)
C4_DatesOfExtremeValues ==
    ( /\ handled.stage = "done"
      /\ Slice1 = RequestedRange(current_data1.rows)
      /\ Slice2 = RequestedRange(current_data2.rows) )
    => /\ response.FXUSDCAD.mindate = DateOfFirstValue(Slice1, response.FXUSDCAD.low)
       /\ response.FXUSDCAD.maxdate = DateOfFirstValue(Slice1, response.FXUSDCAD.high)
       /\ response.AVG_INTWO.mindate = DateOfFirstValue(Slice2, response.AVG_INTWO.low)
       /\ response.AVG_INTWO.maxdate = DateOfFirstValue(Slice2, response.AVG_INTWO.high)

\* C5: a request whose startDate or endDate fails check_date, or whose
\* startDate is after its endDate, makes index() fetch nothing, leave both
\* stores as they were and return the placeholder with the validation message.
C5_InvalidRequestIsRejected ==
    RequestInvalid
    => /\ escaped = "none"
       /\ response = Placeholder
       /\ handled.fetches = 0
       /\ current_data1.rows = handled.before1
       /\ current_data2.rows = handled.before2

\* C6: no exception leaves index(): for every request body and every state of
\* the stores it returns a dictionary whose message is the validation, the
\* failure or the success message.
C6_NoErrorEscapes ==
    request_data.kind # "none"
    => /\ escaped = "none"
       /\ response.message \in {MsgValidation, MsgFailure, MsgSuccess}

AllEqual(s) == \A i, j \in 1..Len(s) : s[i] = s[j]

\* The overlap of a frame is degenerate: value lists of different lengths, at
\* most one pair, or a list whose values are all equal.
Degenerate(frame) ==
    LET xs == SeriesValues(NotNullColumn(frame, "overlap_x"))
        ys == SeriesValues(NotNullColumn(frame, "overlap_y"))
    IN  Len(xs) # Len(ys) \/ Len(xs) <= 1 \/ AllEqual(xs) \/ AllEqual(ys)

\* C7: calc_pearson returns the sentinel 999 exactly when the overlap is
\* degenerate, and a quotient that is not 999 for every other input.
C7_SentinelIffDegenerate ==
    pc = "done" => (corr = Sentinel <=> Degenerate(df))

ValueOn(frame, d) == frame[CHOOSE i \in 1..Len(frame) : frame[i].dates = d].values

\* C8: overlap_frames of two frames with unique dates has exactly one row for
\* every date of either frame and no other row; the overlap values of a row
\* are both present exactly when its date is in both frames, and are then the
\* two values of that date; for a date of one frame only, the value of the
\* other series is null.
C8_OuterJoinOnDates ==
    pc = "done"
    => /\ \A d \in FrameDates(df1) \cup FrameDates(df2) :
              Cardinality({i \in 1..Len(merged) : merged[i].dates = d}) = 1
       /\ \A i \in 1..Len(merged) :
              LET row == merged[i]
                  in1 == row.dates \in FrameDates(df1)
                  in2 == row.dates \in FrameDates(df2)
              IN  /\ in1 \/ in2
                  /\ (~IsNaN(row.overlap_x) /\ ~IsNaN(row.overlap_y)) <=> (in1 /\ in2)
                  /\ (in1 /\ in2) => /\ row.overlap_x = ValueOn(df1, row.dates)
                                     /\ row.overlap_y = ValueOn(df2, row.dates)
                  /\ in1 => row.values_x = ValueOn(df1, row.dates)
                  /\ in2 => row.values_y = ValueOn(df2, row.dates)
                  /\ ~in1 => IsNaN(row.values_x) /\ IsNaN(row.overlap_x)
                  /\ ~in2 => IsNaN(row.values_y) /\ IsNaN(row.overlap_y)

\* C8's case: the frames share a date and each has a date of its own.
C8_Witness ==
    /\ pc = "done"
    /\ merged # <<>>
    /\ FrameDates(df1) \cap FrameDates(df2) # {}
    /\ FrameDates(df1) \ FrameDates(df2) # {}
    /\ FrameDates(df2) \ FrameDates(df1) # {}

FieldIsDigits(s, a, b) == \A i \in (a + 1)..b : IsDigit(s[i])

\* A string that writes a real calendar date as a 4-digit year, a 2-digit
\* month and a 2-digit day at the places check_date reads.
WritesCalendarDate(s) ==
    /\ Len(s) >= 10
    /\ FieldIsDigits(s, 0, 4) /\ FieldIsDigits(s, 5, 7) /\ FieldIsDigits(s, 8, 10)
    /\ DatetimeOk(PyInt(PySlice(s, 0, 4)).val, PyInt(PySlice(s, 5, 7)).val,
                  PyInt(PySlice(s, 8, 10)).val)

\* C9: check_date returns true only for a string that writes a real calendar
\* date with a 4-digit year, a 2-digit month and a 2-digit day: false for
\* every string shorter than 10 characters, for every non-numeric field and
\* for every impossible date; and true for 2020-02-29.
C9_TrueOnlyForCalendarDates ==
    pc = "done"
    => /\ flag => WritesCalendarDate(date)
       /\ date = ISO(2020, 2, 29) => flag

\* C10: when startDate is after the smallest date of a store and is a date of
\* the store, the lower index index() resolves for the store is the position
\* of the first row dated startDate, whether the row was held from the start
\* or added by an extension.
C10_LowerIndexIsPosition ==
    LET holds(rows, lo) ==
            ( /\ request_data.kind = "dates"
              /\ lo # -1
              /\ StrLess(MinDate(rows), request_data.startDate)
              /\ request_data.startDate \in FrameDates(rows) )
            => lo = FirstPosition(rows, request_data.startDate)
    IN  /\ holds(current_data1.rows, handled.min_date_index_1)
        /\ holds(current_data2.rows, handled.min_date_index_2)

====
